---- MODULE Spec2Model ----
(***************************************************************************)
(* The asset ledger of src/lib.rs (ink! contract InfinityAsset): the       *)
(* storage struct, its private validators and accessors, and the messages  *)
(* blast, transfer, pause and add_emissions, each as one atomic step.      *)
(* Every handler is a function from (storage, caller, arguments) to        *)
(* (storage, result, emitted events), written in the order of the code's   *)
(* statements: a `?` is an early return with the storage as mutated so     *)
(* far.                                                                    *)
(***************************************************************************)
EXTENDS Integers, Sequences, FiniteSets, TLC

\* Program constants.
MAX_METADATA_LENGTH == 250
MAX_EMISSIONS_PER_ASSET == 100

\* Bounds of the model.
\* The largest value of the AssetId type (u128::MAX in the code).
AssetIdMax == 4
\* The number of messages sent to the contract in one behaviour.
MaxCalls == 3
\* The number of messages in one behaviour that builds chains of assets.
ChainCalls == 5

Accounts == {"alice", "bob"}
AssetIds == 0..AssetIdMax

\* Option<T>.
None == <<>>
Some(x) == <<x>>
unwrap(o) == o[1]

\* Result<(), AssetCO2EmissionsError>: Ok(()) or the name of the error.
Ok == "Ok"

\* Mapping<K, V>: a function whose domain is the set of keys present.
get(m, k) == IF k \in DOMAIN m THEN Some(m[k]) ELSE None
contains(m, k) == k \in DOMAIN m
insert(m, k, v) == [x \in DOMAIN m \cup {k} |-> IF x = k THEN v ELSE m[x]]

VARIABLES
  next_id,        \* InfinityAsset.next_id
  asset_owner,    \* Mapping<AssetId, AccountId>
  owned_assets,   \* BTreeMap<AccountId, BTreeSet<AssetId>>
  co2_emissions,  \* Mapping<AssetId, Vec<CO2Emissions>>
  metadata,       \* Mapping<AssetId, Metadata>
  paused,         \* Mapping<AssetId, bool>
  parent,         \* Mapping<AssetId, ParentDetails>
  last,           \* the last message: op, caller, asset id, result, emitted events,
                  \* and its arguments when it returned Ok
  calls,          \* number of messages sent so far
  emitted,        \* the notifications emitted so far, by their topic (the asset
                  \* id); recorded in the behaviours of SpecLog
  contract_owner, \* InfinityAsset.contract_owner of updated-contract/lib.rs; the
                  \* struct of src/lib.rs has no such field (None)
  code_hash       \* the code that runs at the contract's address

store == <<next_id, asset_owner, owned_assets, co2_emissions, metadata, paused, parent>>
vars == <<next_id, asset_owner, owned_assets, co2_emissions, metadata, paused, parent, last,
          calls, emitted, contract_owner, code_hash>>

\* The storage struct as one value.
Storage ==
  [next_id |-> next_id, asset_owner |-> asset_owner, owned_assets |-> owned_assets,
   co2_emissions |-> co2_emissions, metadata |-> metadata, paused |-> paused,
   parent |-> parent]

\* InfinityAsset::new().
\* Mutant: the counter starts at 0.
new_from_zero ==
  [next_id |-> 0, asset_owner |-> <<>>, owned_assets |-> <<>>,
   co2_emissions |-> <<>>, metadata |-> <<>>, paused |-> <<>>, parent |-> <<>>]

new ==
  [next_id |-> 1, asset_owner |-> <<>>, owned_assets |-> <<>>,
   co2_emissions |-> <<>>, metadata |-> <<>>, paused |-> <<>>, parent |-> <<>>]

\* ------------------------------------------------------------------------
\* Events.
BlastedEvent(id, md, owner, par) ==
  [event |-> "Blasted", id |-> id, metadata |-> md, owner |-> owner, parent |-> par]
TransferEvent(from, to, id) ==
  [event |-> "Transfer", from |-> from, to |-> to, id |-> id]
PausedEvent(id) ==
  [event |-> "Paused", id |-> id]
\* Mutant: the notification does not carry the record's `balanced` flag.
EmissionEvent_unbalanced(id, e) ==
  [event |-> "Emission", id |-> id, category |-> e.category, primary |-> e.primary,
   balanced |-> FALSE, date |-> e.date, emissions |-> e.emissions]

EmissionEvent(id, e) ==
  [event |-> "Emission", id |-> id, category |-> e.category, primary |-> e.primary,
   balanced |-> e.balanced, date |-> e.date, emissions |-> e.emissions]

\* What a private method or a message returns: the storage after it, its
\* result, the events it emitted, and (next_id only) the value returned.
Ret(self, result, events) == [self |-> self, result |-> result, events |-> events]

\* ------------------------------------------------------------------------
\* Private methods of InfinityAsset.

\* Mutant: the new id replaces the ids the owner already holds.
insert_owned_asset_resets(self, owner, asset_id) ==
  Ret([self EXCEPT !.owned_assets = insert(@, owner, {asset_id})], Ok, <<>>)

insert_owned_asset(self, owner, asset_id) ==
  IF owner \notin DOMAIN self.owned_assets
  THEN Ret([self EXCEPT !.owned_assets = insert(@, owner, {asset_id})], Ok, <<>>)
  ELSE Ret([self EXCEPT !.owned_assets[owner] = @ \cup {asset_id}], Ok, <<>>)

\* Mutant: the id stays in the old owner's set.
remove_owned_asset_keeps(self, owner, asset_id) ==
  IF owner \notin DOMAIN self.owned_assets
  THEN Ret(self, "InvalidSmartContractState", <<>>)
  ELSE Ret(self, Ok, <<>>)

\* Mutant: the whole set of the owner is emptied.
remove_owned_asset_drops_all(self, owner, asset_id) ==
  IF owner \notin DOMAIN self.owned_assets
  THEN Ret(self, "InvalidSmartContractState", <<>>)
  ELSE Ret([self EXCEPT !.owned_assets[owner] = {}], Ok, <<>>)

remove_owned_asset(self, owner, asset_id) ==
  IF owner \notin DOMAIN self.owned_assets
  THEN Ret(self, "InvalidSmartContractState", <<>>)
  ELSE Ret([self EXCEPT !.owned_assets[owner] = @ \ {asset_id}], Ok, <<>>)

ensure_not_exist(self, id) ==
  IF contains(self.asset_owner, id) THEN "AssetAlreadyExists" ELSE Ok

ensure_exists(self, id) ==
  IF contains(self.asset_owner, id) THEN Ok ELSE "AssetNotFound"

\* Mutant: any account passes for an existing asset.
ensure_owner_any(self, id, account) ==
  IF get(self.asset_owner, id) = None THEN "AssetNotFound" ELSE Ok

ensure_owner(self, id, account) ==
  IF get(self.asset_owner, id) = None THEN "AssetNotFound"
  ELSE IF unwrap(get(self.asset_owner, id)) = account THEN Ok
  ELSE "NotOwner"

has_paused(self, id) == get(self.paused, id)

\* Mutant: an unpaused asset passes the check.
ensure_paused_lax(self, id) ==
  IF has_paused(self, id) = None THEN "AssetNotFound" ELSE Ok

ensure_paused(self, id) ==
  IF has_paused(self, id) = None THEN "AssetNotFound"
  ELSE IF has_paused(self, id) = Some(FALSE) THEN "NotPaused"
  ELSE Ok

\* Mutant: a paused asset passes the check.
ensure_not_paused_lax(self, id) ==
  IF has_paused(self, id) = None THEN "AssetNotFound" ELSE Ok

ensure_not_paused(self, id) ==
  IF has_paused(self, id) = None THEN "AssetNotFound"
  ELSE IF has_paused(self, id) = Some(TRUE) THEN "AlreadyPaused"
  ELSE Ok

\* parent: None, or Some(<<parent_id, relation>>).
\* Mutant: the relation is not looked at.
ensure_proper_parent_any_relation(self, par, caller) ==
  IF par = None THEN Ok
  ELSE LET parent_id == unwrap(par)[1]
       IN IF ensure_owner(self, parent_id, caller) # Ok
          THEN ensure_owner(self, parent_id, caller)
          ELSE ensure_paused(self, parent_id)

\* Mutant: any parent passes the check.
ensure_proper_parent_unchecked(self, par, caller) == Ok

\* Mutant: the paused flag of the parent is checked before the relation.
ensure_proper_parent_paused_first(self, par, caller) ==
  IF par = None THEN Ok
  ELSE LET parent_id == unwrap(par)[1]
           relation == unwrap(par)[2]
       IN IF ensure_owner(self, parent_id, caller) # Ok
          THEN ensure_owner(self, parent_id, caller)
          ELSE IF ensure_paused(self, parent_id) # Ok
          THEN ensure_paused(self, parent_id)
          ELSE IF relation = 0 THEN "InvalidAssetRelation" ELSE Ok

ensure_proper_parent(self, par, caller) ==
  IF par = None THEN Ok
  ELSE LET parent_id == unwrap(par)[1]
           relation == unwrap(par)[2]
       IN IF ensure_owner(self, parent_id, caller) # Ok
          THEN ensure_owner(self, parent_id, caller)
          ELSE IF relation = 0 THEN "InvalidAssetRelation"
          ELSE ensure_paused(self, parent_id)

\* Mutant: an empty list passes the check.
ensure_emissions_not_empty_lax(emissions) == Ok

ensure_emissions_not_empty(emissions) ==
  IF Len(emissions) = 0 THEN "EmissionsEmpty" ELSE Ok

ensure_emissions_not_unbounded(emissions) ==
  IF Len(emissions) > MAX_EMISSIONS_PER_ASSET THEN "EmissionsOverflow" ELSE Ok

\* Mutant: a zero-valued record passes the check.
ensure_emissions_item_not_zero_lax(item) == Ok

ensure_emissions_item_not_zero(item) ==
  IF item.emissions = 0 THEN "ZeroEmissionsItem" ELSE Ok

ensure_emissions_item_correct(item) ==
  IF ensure_emissions_item_not_zero(item) # Ok
  THEN ensure_emissions_item_not_zero(item)
  ELSE Ok

\* Mutant: the items are looked at before the length of the list.
ensure_emissions_correct_items_first(emissions) ==
  IF ensure_emissions_not_empty(emissions) # Ok
  THEN ensure_emissions_not_empty(emissions)
  ELSE IF ~(\A i \in 1..Len(emissions) : ensure_emissions_item_correct(emissions[i]) = Ok)
  THEN "ZeroEmissionsItem"
  ELSE IF ensure_emissions_not_unbounded(emissions) # Ok
  THEN ensure_emissions_not_unbounded(emissions)
  ELSE Ok

ensure_emissions_correct(emissions) ==
  IF ensure_emissions_not_empty(emissions) # Ok
  THEN ensure_emissions_not_empty(emissions)
  ELSE IF ensure_emissions_not_unbounded(emissions) # Ok
  THEN ensure_emissions_not_unbounded(emissions)
  ELSE IF \A i \in 1..Len(emissions) : ensure_emissions_item_correct(emissions[i]) = Ok
  THEN Ok
  ELSE "ZeroEmissionsItem"

\* Mutant: metadata of exactly the maximum length is refused too.
ensure_proper_metadata_strict(md) ==
  IF Len(md) >= MAX_METADATA_LENGTH THEN "MetadataOverflow" ELSE Ok

ensure_proper_metadata(md) ==
  IF Len(md) > MAX_METADATA_LENGTH THEN "MetadataOverflow" ELSE Ok

\* Mutant: the combined length is not checked.
save_new_emissions_unchecked(self, id, emissions) ==
  LET existing == IF get(self.co2_emissions, id) = None THEN <<>>
                  ELSE unwrap(get(self.co2_emissions, id))
      updated_emissions == existing \o emissions
  IN Ret([self EXCEPT !.co2_emissions = insert(@, id, updated_emissions)],
         Ok,
         [i \in 1..Len(emissions) |-> EmissionEvent(id, emissions[i])])

\* Mutant: the new records replace the existing ones.
save_new_emissions_replaces(self, id, emissions) ==
  LET updated_emissions == emissions
  IN IF ensure_emissions_not_unbounded(updated_emissions) # Ok
     THEN Ret(self, ensure_emissions_not_unbounded(updated_emissions), <<>>)
     ELSE Ret([self EXCEPT !.co2_emissions = insert(@, id, updated_emissions)],
              Ok,
              [i \in 1..Len(emissions) |-> EmissionEvent(id, emissions[i])])

\* Mutant: the new records are put before the existing ones.
save_new_emissions_prepends(self, id, emissions) ==
  LET existing == IF get(self.co2_emissions, id) = None THEN <<>>
                  ELSE unwrap(get(self.co2_emissions, id))
      updated_emissions == emissions \o existing
  IN IF ensure_emissions_not_unbounded(updated_emissions) # Ok
     THEN Ret(self, ensure_emissions_not_unbounded(updated_emissions), <<>>)
     ELSE Ret([self EXCEPT !.co2_emissions = insert(@, id, updated_emissions)],
              Ok,
              [i \in 1..Len(emissions) |-> EmissionEvent(id, emissions[i])])

\* Mutant: the combined sequence is stored before its length is checked.
save_new_emissions_writes_first(self, id, emissions) ==
  LET existing == IF get(self.co2_emissions, id) = None THEN <<>>
                  ELSE unwrap(get(self.co2_emissions, id))
      updated_emissions == existing \o emissions
      written == [self EXCEPT !.co2_emissions = insert(@, id, updated_emissions)]
  IN IF ensure_emissions_not_unbounded(updated_emissions) # Ok
     THEN Ret(written, ensure_emissions_not_unbounded(updated_emissions), <<>>)
     ELSE Ret(written, Ok,
              [i \in 1..Len(emissions) |-> EmissionEvent(id, emissions[i])])

save_new_emissions(self, id, emissions) ==
  LET existing == IF get(self.co2_emissions, id) = None THEN <<>>
                  ELSE unwrap(get(self.co2_emissions, id))
      updated_emissions == existing \o emissions
  IN IF ensure_emissions_not_unbounded(updated_emissions) # Ok
     THEN Ret(self, ensure_emissions_not_unbounded(updated_emissions), <<>>)
     ELSE Ret([self EXCEPT !.co2_emissions = insert(@, id, updated_emissions)],
              Ok,
              [i \in 1..Len(emissions) |-> EmissionEvent(id, emissions[i])])

\* Mutant: the incremented counter is returned as the new id.
alloc_next_id_returns_new(self) ==
  IF self.next_id + 1 > AssetIdMax
  THEN [self |-> self, result |-> "AssetIdOverflow", value |-> 0]
  ELSE [self |-> [self EXCEPT !.next_id = @ + 1], result |-> Ok, value |-> self.next_id + 1]

\* Mutant: the counter wraps around before the overflow is reported.
alloc_next_id_writes_first(self) ==
  IF self.next_id + 1 > AssetIdMax
  THEN [self |-> [self EXCEPT !.next_id = 0], result |-> "AssetIdOverflow", value |-> 0]
  ELSE [self |-> [self EXCEPT !.next_id = @ + 1], result |-> Ok, value |-> self.next_id]

\* Mutant: the counter is not incremented.
alloc_next_id_stuck(self) ==
  IF self.next_id + 1 > AssetIdMax
  THEN [self |-> self, result |-> "AssetIdOverflow", value |-> 0]
  ELSE [self |-> self, result |-> Ok, value |-> self.next_id]

\* Mutant: the counter saturates at the maximum instead of reporting the
\* overflow.
alloc_next_id_saturates(self) ==
  IF self.next_id + 1 > AssetIdMax
  THEN [self |-> self, result |-> Ok, value |-> self.next_id]
  ELSE [self |-> [self EXCEPT !.next_id = @ + 1], result |-> Ok, value |-> self.next_id]

\* fn next_id(&mut self): the value returned is in the field `value`.
alloc_next_id(self) ==
  IF self.next_id + 1 > AssetIdMax
  THEN [self |-> self, result |-> "AssetIdOverflow", value |-> 0]
  ELSE [self |-> [self EXCEPT !.next_id = @ + 1], result |-> Ok, value |-> self.next_id]

\* ------------------------------------------------------------------------
\* Messages of the trait AssetCO2Emissions (impl for InfinityAsset).

RECURSIVE SortedSeq(_)
\* The elements of a BTreeSet in iteration (ascending) order.
SortedSeq(S) ==
  IF S = {} THEN <<>>
  ELSE LET m == CHOOSE x \in S : \A y \in S : x <= y
       IN <<m>> \o SortedSeq(S \ {m})

list_assets(self, owner) ==
  IF owner \notin DOMAIN self.owned_assets THEN <<>>
  ELSE SortedSeq(self.owned_assets[owner])

owner_of(self, id) == get(self.asset_owner, id)

get_asset_emissions(self, id) == get(self.co2_emissions, id)

get_metadata(self, id) == get(self.metadata, id)

get_parent_details(self, id) == get(self.parent, id)

\* AssetDetails: <<id, metadata, emissions, parent>>. A read-only message
\* returns its value, and `panic` when an expect() aborted it.
get_asset(self, id) ==
  IF get_metadata(self, id) = None THEN [panic |-> FALSE, value |-> None]
  ELSE IF get_asset_emissions(self, id) = None \/ get_parent_details(self, id) = None
  THEN [panic |-> TRUE, value |-> None]
  ELSE [panic |-> FALSE,
        value |-> Some(<<id, unwrap(get_metadata(self, id)),
                         unwrap(get_asset_emissions(self, id)),
                         unwrap(get_parent_details(self, id))>>)]

RECURSIVE build_asset_tree_root_first(_, _, _)
\* Mutant: each ancestor is put in front of the path.
build_asset_tree_root_first(self, asset_id, tree_path) ==
  LET a == get_asset(self, asset_id)
  IN IF a.panic \/ a.value = None
     THEN [panic |-> TRUE, diverges |-> FALSE, value |-> tree_path]
     ELSE IF \E i \in 1..Len(tree_path) : tree_path[i][1] = asset_id
     THEN [panic |-> FALSE, diverges |-> TRUE, value |-> tree_path]
     ELSE LET asset == unwrap(a.value)
              parent_details == asset[4]
              pushed == <<asset>> \o tree_path
          IN IF parent_details = None
             THEN [panic |-> FALSE, diverges |-> FALSE, value |-> pushed]
             ELSE build_asset_tree_root_first(self, unwrap(parent_details)[1], pushed)

RECURSIVE build_asset_tree_loop(_, _, _)
\* The loop of build_asset_tree, entered with the loop variables asset_id and
\* tree_path. The storage does not change during the walk, so an iteration
\* that comes back to an asset already in tree_path repeats for ever:
\* `diverges`. expect("Asset existence already checked") aborts: `panic`.
build_asset_tree_loop(self, asset_id, tree_path) ==
  LET a == get_asset(self, asset_id)
  IN IF a.panic \/ a.value = None
     THEN [panic |-> TRUE, diverges |-> FALSE, value |-> tree_path]
     ELSE IF \E i \in 1..Len(tree_path) : tree_path[i][1] = asset_id
     THEN [panic |-> FALSE, diverges |-> TRUE, value |-> tree_path]
     ELSE LET asset == unwrap(a.value)
              parent_details == asset[4]
              pushed == Append(tree_path, asset)
          IN IF parent_details = None
             THEN [panic |-> FALSE, diverges |-> FALSE, value |-> pushed]
             ELSE build_asset_tree_loop(self, unwrap(parent_details)[1], pushed)

build_asset_tree(self, id) == build_asset_tree_loop(self, id, <<>>)

query_emissions(self, id) ==
  IF ensure_exists(self, id) # Ok
  THEN [panic |-> FALSE, diverges |-> FALSE, value |-> None]
  ELSE LET tree == build_asset_tree(self, id)
       IN [panic |-> tree.panic, diverges |-> tree.diverges, value |-> Some(tree.value)]

\* In blast and transfer each LET name is one statement of the code, in the
\* code's order; the IF chain returns at the first one that fails, with the
\* storage as the statements before it left it.
blast(self, caller, to, md, emissions, par) ==
  LET m == ensure_proper_metadata(md)
      e == ensure_emissions_correct(emissions)
      pp == ensure_proper_parent(self, par, caller)
      a == alloc_next_id(self)
      asset_id == a.value
      ne == ensure_not_exist(a.self, asset_id)
      o == insert_owned_asset(a.self, to, asset_id)
      s == [o.self EXCEPT !.asset_owner = insert(@, asset_id, to),
                          !.metadata = insert(@, asset_id, md),
                          !.paused = insert(@, asset_id, FALSE),
                          !.parent = insert(@, asset_id, par)]
      sv == save_new_emissions(s, asset_id, emissions)
  IN IF m # Ok THEN Ret(self, m, <<>>)
     ELSE IF e # Ok THEN Ret(self, e, <<>>)
     ELSE IF pp # Ok THEN Ret(self, pp, <<>>)
     ELSE IF a.result # Ok THEN Ret(a.self, a.result, <<>>)
     ELSE IF ne # Ok THEN Ret(a.self, ne, <<>>)
     ELSE IF o.result # Ok THEN Ret(o.self, o.result, <<>>)
     ELSE Ret(sv.self, sv.result,
              <<BlastedEvent(asset_id, md, to, par)>> \o sv.events)

\* Mutant: the emissions are checked before the asset, its owner and its
\* paused flag.
transfer_inputs_first(self, caller, to, id, emissions) ==
  LET from == caller
      e == ensure_emissions_correct(emissions)
      x == ensure_exists(self, id)
      ow == ensure_owner(self, id, from)
      np == ensure_not_paused(self, id)
      r == remove_owned_asset(self, from, id)
      o == insert_owned_asset(r.self, to, id)
      s == [o.self EXCEPT !.asset_owner = insert(@, id, to)]
      sv == save_new_emissions(s, id, emissions)
  IN IF e # Ok THEN Ret(self, e, <<>>)
     ELSE IF x # Ok THEN Ret(self, x, <<>>)
     ELSE IF ow # Ok THEN Ret(self, ow, <<>>)
     ELSE IF np # Ok THEN Ret(self, np, <<>>)
     ELSE IF r.result # Ok THEN Ret(r.self, r.result, <<>>)
     ELSE IF o.result # Ok THEN Ret(o.self, o.result, <<>>)
     ELSE Ret(sv.self, sv.result, <<TransferEvent(from, to, id)>> \o sv.events)

\* Mutant: the id is put into the receiver's set before it is taken out of
\* the sender's.
transfer_inserts_first(self, caller, to, id, emissions) ==
  LET from == caller
      x == ensure_exists(self, id)
      ow == ensure_owner(self, id, from)
      np == ensure_not_paused(self, id)
      e == ensure_emissions_correct(emissions)
      o == insert_owned_asset(self, to, id)
      r == remove_owned_asset(o.self, from, id)
      s == [r.self EXCEPT !.asset_owner = insert(@, id, to)]
      sv == save_new_emissions(s, id, emissions)
  IN IF x # Ok THEN Ret(self, x, <<>>)
     ELSE IF ow # Ok THEN Ret(self, ow, <<>>)
     ELSE IF np # Ok THEN Ret(self, np, <<>>)
     ELSE IF e # Ok THEN Ret(self, e, <<>>)
     ELSE IF o.result # Ok THEN Ret(o.self, o.result, <<>>)
     ELSE IF r.result # Ok THEN Ret(r.self, r.result, <<>>)
     ELSE Ret(sv.self, sv.result, <<TransferEvent(from, to, id)>> \o sv.events)

transfer(self, caller, to, id, emissions) ==
  LET from == caller
      x == ensure_exists(self, id)
      ow == ensure_owner(self, id, from)
      np == ensure_not_paused(self, id)
      e == ensure_emissions_correct(emissions)
      r == remove_owned_asset(self, from, id)
      o == insert_owned_asset(r.self, to, id)
      s == [o.self EXCEPT !.asset_owner = insert(@, id, to)]
      sv == save_new_emissions(s, id, emissions)
  IN IF x # Ok THEN Ret(self, x, <<>>)
     ELSE IF ow # Ok THEN Ret(self, ow, <<>>)
     ELSE IF np # Ok THEN Ret(self, np, <<>>)
     ELSE IF e # Ok THEN Ret(self, e, <<>>)
     ELSE IF r.result # Ok THEN Ret(r.self, r.result, <<>>)
     ELSE IF o.result # Ok THEN Ret(o.self, o.result, <<>>)
     ELSE Ret(sv.self, sv.result, <<TransferEvent(from, to, id)>> \o sv.events)

\* Mutant: the paused flag is checked before the owner.
pause_paused_first(self, caller, id) ==
  IF ensure_not_paused(self, id) # Ok
  THEN Ret(self, ensure_not_paused(self, id), <<>>)
  ELSE IF ensure_owner(self, id, caller) # Ok
  THEN Ret(self, ensure_owner(self, id, caller), <<>>)
  ELSE Ret([self EXCEPT !.paused = insert(@, id, TRUE)], Ok, <<PausedEvent(id)>>)

\* Mutant: pausing a paused asset un-pauses it.
pause_toggles(self, caller, id) ==
  IF ensure_owner(self, id, caller) # Ok
  THEN Ret(self, ensure_owner(self, id, caller), <<>>)
  ELSE Ret([self EXCEPT !.paused = insert(@, id, ~self.paused[id])], Ok, <<PausedEvent(id)>>)

\* Mutant: pausing also wipes the metadata of the asset.
pause_wipes_metadata(self, caller, id) ==
  IF ensure_owner(self, id, caller) # Ok
  THEN Ret(self, ensure_owner(self, id, caller), <<>>)
  ELSE IF ensure_not_paused(self, id) # Ok
  THEN Ret(self, ensure_not_paused(self, id), <<>>)
  ELSE Ret([self EXCEPT !.paused = insert(@, id, TRUE),
                        !.metadata = insert(@, id, <<>>)], Ok, <<PausedEvent(id)>>)

pause(self, caller, id) ==
  IF ensure_owner(self, id, caller) # Ok
  THEN Ret(self, ensure_owner(self, id, caller), <<>>)
  ELSE IF ensure_not_paused(self, id) # Ok
  THEN Ret(self, ensure_not_paused(self, id), <<>>)
  ELSE Ret([self EXCEPT !.paused = insert(@, id, TRUE)], Ok, <<PausedEvent(id)>>)

\* Mutant: the length is checked before the item.
add_emissions_length_first(self, caller, id, emissions) ==
  IF ensure_exists(self, id) # Ok
  THEN Ret(self, ensure_exists(self, id), <<>>)
  ELSE IF ensure_owner(self, id, caller) # Ok
  THEN Ret(self, ensure_owner(self, id, caller), <<>>)
  ELSE IF ensure_not_paused(self, id) # Ok
  THEN Ret(self, ensure_not_paused(self, id), <<>>)
  ELSE IF save_new_emissions(self, id, <<emissions>>).result # Ok
  THEN Ret(self, save_new_emissions(self, id, <<emissions>>).result, <<>>)
  ELSE IF ensure_emissions_item_correct(emissions) # Ok
  THEN Ret(self, ensure_emissions_item_correct(emissions), <<>>)
  ELSE save_new_emissions(self, id, <<emissions>>)

add_emissions(self, caller, id, emissions) ==
  IF ensure_exists(self, id) # Ok
  THEN Ret(self, ensure_exists(self, id), <<>>)
  ELSE IF ensure_owner(self, id, caller) # Ok
  THEN Ret(self, ensure_owner(self, id, caller), <<>>)
  ELSE IF ensure_not_paused(self, id) # Ok
  THEN Ret(self, ensure_not_paused(self, id), <<>>)
  ELSE IF ensure_emissions_item_correct(emissions) # Ok
  THEN Ret(self, ensure_emissions_item_correct(emissions), <<>>)
  ELSE save_new_emissions(self, id, <<emissions>>)

\* ------------------------------------------------------------------------
\* The arguments the callers send.

\* A CO2Emissions record.
Item(category, primary, emissions, date) ==
  [category |-> category, primary |-> primary, balanced |-> TRUE,
   emissions |-> emissions, date |-> date]
E1 == Item("Upstream", TRUE, 1, 1682632800)
E2 == Item("Transport", FALSE, 2, 1682632801)
Zero == Item("Process", TRUE, 0, 1682632800)
\* n valid records, told apart by their dates.
Long(n) == [i \in 1..n |-> Item("Upstream", TRUE, 1, i)]
\* n records, the last of them zero-valued.
LongZero(n) == [i \in 1..n |-> IF i = n THEN Zero ELSE Item("Upstream", TRUE, 1, i)]

\* Lists of exactly the maximum length, and of one record more.
FullList == Long(MAX_EMISSIONS_PER_ASSET)
OverfullList == Long(MAX_EMISSIONS_PER_ASSET + 1)

Bytes(n) == [i \in 1..n |-> i % 256]

\* Metadata of exactly the maximum length, and of one byte more.
MaxMetadata == Bytes(MAX_METADATA_LENGTH)
OverlongMetadata == Bytes(MAX_METADATA_LENGTH + 1)

MetadataInputs == {<<0, 1, 2, 3>>, Bytes(MAX_METADATA_LENGTH + 1)}

\* Lists sent to blast: empty, one record, one with a zero-valued record, and
\* lists at and above the maximum.
BlastEmissions ==
  {<<>>, <<E1>>, <<E1, Zero>>,
   FullList, OverfullList, LongZero(MAX_EMISSIONS_PER_ASSET + 1)}

\* Lists sent to transfer: as for blast, a list of two records, and one that
\* fills an asset holding one record up to the maximum.
TransferEmissions ==
  {<<>>, <<E1>>, <<E2, E1>>, <<E2, Zero>>,
   Long(MAX_EMISSIONS_PER_ASSET - 1), FullList, OverfullList}

\* Records sent to add_emissions.
ItemInputs == {E2, Zero}

\* Asset ids named in messages: 0 never exists, the others may.
IdInputs == 0..(AssetIdMax - 1)

ParentInputs == {None} \cup {Some(<<p, r>>) : p \in IdInputs \ {0}, r \in {0, 100}}

\* ------------------------------------------------------------------------
\* The state machine: one step is one message, run to completion.

\* Code hashes: the contract of src/lib.rs, the one of
\* integration-tests/updated-contract/lib.rs, and some other code.
OriginalCode == "original"
UpdatedCode == "updated"
CodeHashes == {OriginalCode, UpdatedCode, "other"}

Init ==
  /\ next_id = new.next_id
  /\ asset_owner = new.asset_owner
  /\ owned_assets = new.owned_assets
  /\ co2_emissions = new.co2_emissions
  /\ metadata = new.metadata
  /\ paused = new.paused
  /\ parent = new.parent
  /\ last = [op |-> "new", caller |-> "alice", id |-> 0, result |-> Ok, events |-> <<>>,
             args |-> <<>>]
  /\ calls = 0
  /\ emitted = [x \in AssetIds |-> <<>>]
  /\ contract_owner = None
  /\ code_hash = OriginalCode

\* The message `op` sent by `caller` with the arguments `args` returned `r`.
\* `id` is the asset the message names (for blast: the value of next_id when
\* it was sent).
Send(op, caller, id, args, r) ==
  /\ next_id' = r.self.next_id
  /\ asset_owner' = r.self.asset_owner
  /\ owned_assets' = r.self.owned_assets
  /\ co2_emissions' = r.self.co2_emissions
  /\ metadata' = r.self.metadata
  /\ paused' = r.self.paused
  /\ parent' = r.self.parent
  /\ last' = [op |-> op, caller |-> caller, id |-> id,
              result |-> r.result, events |-> r.events,
              args |-> IF r.result = Ok THEN args ELSE <<>>]
  /\ calls' = calls + 1
  /\ contract_owner' = contract_owner
  /\ code_hash' = code_hash

Call(op, caller, id, args, r) ==
  calls < MaxCalls /\ Send(op, caller, id, args, r) /\ emitted' = emitted

Blast ==
  \E caller \in Accounts, to \in Accounts, md \in MetadataInputs,
     emissions \in BlastEmissions, par \in ParentInputs :
    Call("blast", caller, next_id, <<to, md, emissions, par>>,
         blast(Storage, caller, to, md, emissions, par))

Transfer ==
  \E caller \in Accounts, to \in Accounts, id \in IdInputs,
     emissions \in TransferEmissions :
    Call("transfer", caller, id, <<to, emissions>>,
         transfer(Storage, caller, to, id, emissions))

Pause ==
  \E caller \in Accounts, id \in IdInputs :
    Call("pause", caller, id, <<>>, pause(Storage, caller, id))

AddEmissions ==
  \E caller \in Accounts, id \in IdInputs, emissions \in ItemInputs :
    Call("add_emissions", caller, id, <<emissions>>,
         add_emissions(Storage, caller, id, emissions))

Next == Blast \/ Transfer \/ Pause \/ AddEmissions

Spec == Init /\ [][Next]_vars

\* ------------------------------------------------------------------------
\* Longer behaviours with fewer kinds of argument, in which chains of assets
\* are split off one another and the ids run out: blast (for the caller
\* itself) and pause only, metadata of four bytes or of the maximum length, a
\* list of two records or none, relation 100 with every parent and relation 0
\* with the first asset.
ChainMetadata == {<<0, 1, 2, 3>>, Bytes(MAX_METADATA_LENGTH)}
ChainEmissions == {<<E2, E1>>, <<>>}
ChainParents == {None, Some(<<1, 0>>)} \cup {Some(<<p, 100>>) : p \in IdInputs \ {0}}

ChainCall(op, caller, id, args, r) ==
  calls < ChainCalls /\ Send(op, caller, id, args, r) /\ emitted' = emitted

ChainBlast ==
  \E caller \in Accounts, md \in ChainMetadata,
     emissions \in ChainEmissions, par \in ChainParents :
    ChainCall("blast", caller, next_id, <<caller, md, emissions, par>>,
              blast(Storage, caller, caller, md, emissions, par))

ChainPause ==
  \E caller \in Accounts, id \in IdInputs :
    ChainCall("pause", caller, id, <<>>, pause(Storage, caller, id))

ChainNext == ChainBlast \/ ChainPause

SpecChain == Init /\ [][ChainNext]_vars

\* ------------------------------------------------------------------------
\* Behaviours in which the environment keeps every notification: each event
\* emitted by a message, whatever the message returns, is appended to the
\* log of its topic. All four messages, with fewer kinds of argument.
LogEmissions == {<<E1>>, <<>>, FullList}
LogTransferEmissions == {<<E2, E1>>, <<>>}
LogParents == {None, Some(<<1, 100>>)}

emit_event(log, events) ==
  [x \in AssetIds |-> log[x] \o SelectSeq(events, LAMBDA e : e.id = x)]

LogCall(op, caller, id, args, r) ==
  /\ calls < MaxCalls
  /\ Send(op, caller, id, args, r)
  /\ emitted' = emit_event(emitted, r.events)

LogBlast ==
  \E caller \in Accounts, to \in Accounts, emissions \in LogEmissions,
     par \in LogParents :
    LogCall("blast", caller, next_id, <<to, <<0, 1, 2, 3>>, emissions, par>>,
            blast(Storage, caller, to, <<0, 1, 2, 3>>, emissions, par))

LogTransfer ==
  \E caller \in Accounts, to \in Accounts, id \in IdInputs,
     emissions \in LogTransferEmissions :
    LogCall("transfer", caller, id, <<to, emissions>>,
            transfer(Storage, caller, to, id, emissions))

LogPause ==
  \E caller \in Accounts, id \in IdInputs :
    LogCall("pause", caller, id, <<>>, pause(Storage, caller, id))

LogAddEmissions ==
  \E caller \in Accounts, id \in IdInputs, emissions \in ItemInputs :
    LogCall("add_emissions", caller, id, <<emissions>>,
            add_emissions(Storage, caller, id, emissions))

LogNext == LogBlast \/ LogTransfer \/ LogPause \/ LogAddEmissions

SpecLog == Init /\ [][LogNext]_vars

\* ------------------------------------------------------------------------
\* The contract of integration-tests/updated-contract/lib.rs. Its storage
\* struct is the one of src/lib.rs with the field contract_owner in front;
\* blast and transfer do nothing, pause and add_emissions and every private
\* method they call have the text of src/lib.rs, and set_contract_owner and
\* set_code are new.

UpdatedStorage ==
  [contract_owner |-> contract_owner,
   next_id |-> next_id, asset_owner |-> asset_owner, owned_assets |-> owned_assets,
   co2_emissions |-> co2_emissions, metadata |-> metadata, paused |-> paused,
   parent |-> parent]

\* The constructor, called by `caller`.
updated_new(caller) ==
  [contract_owner |-> caller,
   next_id |-> 1, asset_owner |-> <<>>, owned_assets |-> <<>>,
   co2_emissions |-> <<>>, metadata |-> <<>>, paused |-> <<>>, parent |-> <<>>]

\* Mutant: every caller passes for the contract owner.
ensure_contract_owner_any(self, caller) == Ok

ensure_contract_owner(self, caller) ==
  IF caller = self.contract_owner THEN Ok ELSE "NotContractOwner"

set_contract_owner(self, caller, new_owner) == Ret(self, "AlreadyPaused", <<>>)

\* set_code returns nothing or aborts: `result` is Ok or "panic", and
\* `code_hash` is the code at the contract's address afterwards. `env` is
\* what ink::env::set_code_hash answers.
set_code(self, caller, hash, current, env) ==
  IF ensure_contract_owner(self, caller) # Ok
  THEN [self |-> self, result |-> "panic", events |-> <<>>, code_hash |-> current]
  ELSE IF env # Ok
  THEN [self |-> self, result |-> "panic", events |-> <<>>, code_hash |-> current]
  ELSE [self |-> self, result |-> Ok, events |-> <<>>, code_hash |-> hash]

updated_blast(self, caller, to, md, emissions, par) == Ret(self, Ok, <<>>)

updated_transfer(self, caller, to, id, emissions) == Ret(self, Ok, <<>>)

UpdatedInit ==
  \E caller \in Accounts :
    /\ contract_owner = updated_new(caller).contract_owner
    /\ next_id = updated_new(caller).next_id
    /\ asset_owner = updated_new(caller).asset_owner
    /\ owned_assets = updated_new(caller).owned_assets
    /\ co2_emissions = updated_new(caller).co2_emissions
    /\ metadata = updated_new(caller).metadata
    /\ paused = updated_new(caller).paused
    /\ parent = updated_new(caller).parent
    /\ code_hash = UpdatedCode
    /\ last = [op |-> "new", caller |-> caller, id |-> 0, result |-> Ok, events |-> <<>>,
               args |-> <<>>]
    /\ calls = 0
    /\ emitted = [x \in AssetIds |-> <<>>]

\* One message of the updated contract, which runs as long as its code is
\* the code at the contract's address; `hash` is the code there afterwards.
UpdatedCall(op, caller, id, args, r, hash) ==
  /\ calls < MaxCalls
  /\ code_hash = UpdatedCode
  /\ contract_owner' = r.self.contract_owner
  /\ next_id' = r.self.next_id
  /\ asset_owner' = r.self.asset_owner
  /\ owned_assets' = r.self.owned_assets
  /\ co2_emissions' = r.self.co2_emissions
  /\ metadata' = r.self.metadata
  /\ paused' = r.self.paused
  /\ parent' = r.self.parent
  /\ code_hash' = hash
  /\ last' = [op |-> op, caller |-> caller, id |-> id,
              result |-> r.result, events |-> r.events,
              args |-> IF r.result = Ok THEN args ELSE <<>>]
  /\ calls' = calls + 1
  /\ emitted' = emitted

SetContractOwner ==
  \E caller \in Accounts, new_owner \in Accounts :
    UpdatedCall("set_contract_owner", caller, 0, <<new_owner>>,
                set_contract_owner(UpdatedStorage, caller, new_owner), code_hash)

SetCode ==
  \E caller \in Accounts, hash \in CodeHashes, env \in {Ok, "CodeNotFound"} :
    UpdatedCall("set_code", caller, 0, <<hash>>,
                set_code(UpdatedStorage, caller, hash, code_hash, env),
                set_code(UpdatedStorage, caller, hash, code_hash, env).code_hash)

UpdatedBlast ==
  \E caller \in Accounts, to \in Accounts, emissions \in {<<E1>>, <<>>} :
    UpdatedCall("blast", caller, next_id, <<to, <<0, 1, 2, 3>>, emissions, None>>,
                updated_blast(UpdatedStorage, caller, to, <<0, 1, 2, 3>>, emissions, None),
                code_hash)

UpdatedTransfer ==
  \E caller \in Accounts, to \in Accounts, id \in IdInputs :
    UpdatedCall("transfer", caller, id, <<to, <<E1>>>>,
                updated_transfer(UpdatedStorage, caller, to, id, <<E1>>), code_hash)

UpdatedPause ==
  \E caller \in Accounts, id \in IdInputs :
    UpdatedCall("pause", caller, id, <<>>, pause(UpdatedStorage, caller, id), code_hash)

UpdatedAddEmissions ==
  \E caller \in Accounts, id \in IdInputs, emissions \in ItemInputs :
    UpdatedCall("add_emissions", caller, id, <<emissions>>,
                add_emissions(UpdatedStorage, caller, id, emissions), code_hash)

UpdatedNext ==
  \/ SetContractOwner \/ SetCode
  \/ UpdatedBlast \/ UpdatedTransfer \/ UpdatedPause \/ UpdatedAddEmissions

SpecUpdated == UpdatedInit /\ [][UpdatedNext]_vars

\* ------------------------------------------------------------------------
\* Properties of the ledger.

InSeq(s, x) == \E i \in 1..Len(s) : s[i] = x
IsPrefix(s, t) == Len(s) <= Len(t) /\ SubSeq(t, 1, Len(s)) = s

\* C1: ownership index consistency. In every reachable state, for every
\* account A and asset id X, X is in list_assets(A) iff owner_of(X) = Some(A);
\* so no id is listed under two accounts.
C1_OwnershipIndexConsistency ==
  /\ \A A \in Accounts, X \in AssetIds :
       InSeq(list_assets(Storage, A), X) <=> owner_of(Storage, X) = Some(A)
  /\ \A A, B \in Accounts, X \in AssetIds :
       InSeq(list_assets(Storage, A), X) /\ InSeq(list_assets(Storage, B), X) => A = B

\* An asset changed hands: it left the caller's list and is in the new owner's.
C1_Witness ==
  /\ last.op = "transfer" /\ last.result = Ok
  /\ owner_of(Storage, last.id) # Some(last.caller)
  /\ ~InSeq(list_assets(Storage, last.caller), last.id)
  /\ InSeq(list_assets(Storage, unwrap(owner_of(Storage, last.id))), last.id)

\* C2: pause monotonicity. An asset that comes into existence in a step has
\* has_paused = Some(false) after it, and an asset with has_paused = Some(true)
\* before a step has has_paused = Some(true) after it, whatever the step is.
C2_PauseMonotonic ==
  [][\A id \in AssetIds :
       /\ (has_paused(Storage, id) = None /\ has_paused(Storage, id)' # None
             => has_paused(Storage, id)' = Some(FALSE))
       /\ (has_paused(Storage, id) = Some(TRUE)
             => has_paused(Storage, id)' = Some(TRUE))]_vars

\* The owner called pause on an asset that was already paused.
C2_Witness ==
  /\ last.op = "pause" /\ last.result = "AlreadyPaused"
  /\ has_paused(Storage, last.id) = Some(TRUE)

\* C3: pause is a freeze. In every step from a state in which an asset is
\* paused, its owner and its emissions sequence are unchanged, whoever calls
\* whatever; and a transfer or add_emissions of it sent by its owner returns
\* AlreadyPaused.
C3_PauseFreezes ==
  [][\A id \in DOMAIN paused :
       paused[id] =>
         /\ owner_of(Storage, id)' = owner_of(Storage, id)
         /\ get_asset_emissions(Storage, id)' = get_asset_emissions(Storage, id)
         /\ ((last'.op \in {"transfer", "add_emissions"}
               /\ last'.id = id
               /\ Some(last'.caller) = owner_of(Storage, id))
              => last'.result = "AlreadyPaused")]_vars

\* The owner of a paused asset tried to transfer it.
C3_Witness ==
  /\ last.op = "transfer" /\ last.result = "AlreadyPaused"
  /\ has_paused(Storage, last.id) = Some(TRUE)
  /\ owner_of(Storage, last.id) = Some(last.caller)

\* C4: append-only emissions. In every step, every asset's emissions sequence
\* before the step is a prefix of its sequence after the step (so its length
\* never decreases, and by induction every earlier sequence is a prefix of
\* every later one).
C4_AppendOnlyEmissions ==
  [][\A id \in DOMAIN co2_emissions :
       /\ get_asset_emissions(Storage, id)' # None
       /\ IsPrefix(co2_emissions[id], unwrap(get_asset_emissions(Storage, id)'))]_vars

\* Records were appended to an asset that already held some, twice.
C4_Witness ==
  /\ last.op \in {"transfer", "add_emissions"} /\ last.result = Ok
  /\ Len(co2_emissions[last.id]) = 4
  /\ calls = 3

\* C5: cumulative emissions bound. Every stored emissions sequence has at most
\* MAX_EMISSIONS_PER_ASSET records. With metadata within its limit and no
\* parent, a blast of exactly MAX records is never refused for its length
\* (it succeeds while an id is left) and a blast of MAX + 1 records returns
\* EmissionsOverflow. On an unpaused asset that holds MAX records,
\* add_emissions of a valid record and transfer with one valid record, sent by
\* its owner, return EmissionsOverflow.
C5_EmissionsBound ==
  /\ \A id \in DOMAIN co2_emissions :
       Len(co2_emissions[id]) <= MAX_EMISSIONS_PER_ASSET
  /\ \A caller \in Accounts, to \in Accounts :
       /\ blast(Storage, caller, to, <<0, 1, 2, 3>>, FullList, None).result
            = IF next_id < AssetIdMax THEN Ok ELSE "AssetIdOverflow"
       /\ blast(Storage, caller, to, <<0, 1, 2, 3>>, OverfullList, None).result
            = "EmissionsOverflow"
  /\ \A id \in DOMAIN co2_emissions :
       Len(co2_emissions[id]) = MAX_EMISSIONS_PER_ASSET /\ ~paused[id] =>
         /\ add_emissions(Storage, asset_owner[id], id, E2).result = "EmissionsOverflow"
         /\ \A to \in Accounts :
              transfer(Storage, asset_owner[id], to, id, <<E1>>).result
                = "EmissionsOverflow"

\* An asset filled up to exactly MAX records by a transfer refused one more.
C5_Witness ==
  /\ last.op = "add_emissions" /\ last.result = "EmissionsOverflow"
  /\ Len(co2_emissions[last.id]) = MAX_EMISSIONS_PER_ASSET
  /\ calls = 3

\* C6: monotonic identifiers. From a fresh ledger, the k-th successful blast
\* (k - 1 assets exist before it) creates asset k and no other, k is larger
\* than every existing id, the Blasted notification names k, and the counter
\* goes from k to k + 1; every other step (a failed blast, any other message)
\* leaves the counter and the set of existing ids unchanged.
C6_MonotonicIdentifiers ==
  [][IF last'.op = "blast" /\ last'.result = Ok
     THEN LET k == Cardinality(DOMAIN asset_owner) + 1
          IN /\ DOMAIN asset_owner' = DOMAIN asset_owner \cup {k}
             /\ k \notin DOMAIN asset_owner
             /\ \A x \in DOMAIN asset_owner : x < k
             /\ last'.events[1].event = "Blasted" /\ last'.events[1].id = k
             /\ next_id = k /\ next_id' = k + 1
     ELSE /\ DOMAIN asset_owner' = DOMAIN asset_owner
          /\ next_id' = next_id]_vars

\* The second successful blast, with one other call before it.
C6_Witness ==
  /\ last.op = "blast" /\ last.result = Ok /\ last.id = 2
  /\ DOMAIN asset_owner = {1, 2}
  /\ calls = 3

C8_FailedTransferChangesNothing ==
  [][\A id \in AssetIds :
       last'.op = "transfer" /\ last'.id = id /\ last'.result # Ok
         => /\ owner_of(Storage, id)' = owner_of(Storage, id)
            /\ \A A \in Accounts : list_assets(Storage, A)' = list_assets(Storage, A)
            /\ get_asset_emissions(Storage, id)' = get_asset_emissions(Storage, id)
            /\ last'.events = <<>>]_vars

\* C9: parent validity at creation. In every reachable state, for every
\* caller, receiver and parent argument (with valid metadata and emissions):
\* if blast succeeds with parent = Some((p, r)) then p exists, its owner is
\* the caller, r is non-zero and p is paused; and blast with parent = None
\* succeeds whatever the state (while an id is left).
C9_ParentValidity ==
  \A caller \in Accounts, to \in Accounts, par \in ParentInputs :
    LET r == blast(Storage, caller, to, <<0, 1, 2, 3>>, <<E1>>, par)
    IN /\ (r.result = Ok /\ par # None
             => /\ owner_of(Storage, unwrap(par)[1]) = Some(caller)
                /\ unwrap(par)[2] # 0
                /\ has_paused(Storage, unwrap(par)[1]) = Some(TRUE))
       /\ (par = None
             => r.result = IF next_id < AssetIdMax THEN Ok ELSE "AssetIdOverflow")

\* A child was blasted by the parent's owner for another account.
C9_Witness ==
  /\ last.op = "blast" /\ last.result = Ok
  /\ get_parent_details(Storage, last.id) = Some(Some(<<1, 100>>))
  /\ owner_of(Storage, 1) = Some(last.caller)
  /\ owner_of(Storage, last.id) # Some(last.caller)

\* C10: owner-only mutation. In every step, for every existing asset X: if
\* X's owner, paused flag or emissions sequence changes, the caller of the
\* step is X's owner before the step; and a transfer, pause or add_emissions
\* of X sent by another account returns NotOwner.
C10_OwnerOnlyMutation ==
  [][\A X \in DOMAIN asset_owner :
       /\ (\/ owner_of(Storage, X)' # owner_of(Storage, X)
           \/ has_paused(Storage, X)' # has_paused(Storage, X)
           \/ get_asset_emissions(Storage, X)' # get_asset_emissions(Storage, X))
            => last'.caller = asset_owner[X]
       /\ (last'.op \in {"transfer", "pause", "add_emissions"}
             /\ last'.id = X /\ last'.caller # asset_owner[X])
            => last'.result = "NotOwner"]_vars

\* An account that does not own the asset tried to transfer it.
C10_Witness ==
  /\ last.op = "transfer" /\ last.result = "NotOwner"
  /\ owner_of(Storage, last.id) # None
  /\ owner_of(Storage, last.id) # Some(last.caller)

\* C11: provenance round trip. For every existing asset, query_emissions
\* returns a path that starts with the asset itself, in which every entry is
\* (id, metadata, emissions, parent) as get_asset returns it for that id,
\* every entry but the last is followed by its parent, and the last entry has
\* no parent; for a root asset the path is its single entry. When assets
\* 1..N form a chain (asset 1 a root, the parent of asset k being k - 1), the
\* path of N has exactly N entries, the ids N, N - 1, ..., 1.
C11_ProvenanceRoundTrip ==
  \A id \in DOMAIN asset_owner :
    LET q == query_emissions(Storage, id)
        path == unwrap(q.value)
    IN /\ ~q.panic /\ ~q.diverges /\ q.value # None
       /\ Len(path) >= 1
       /\ path[1][1] = id
       /\ \A i \in 1..Len(path) : Some(path[i]) = get_asset(Storage, path[i][1]).value
       /\ \A i \in 1..(Len(path) - 1) :
            path[i][4] # None /\ unwrap(path[i][4])[1] = path[i + 1][1]
       /\ path[Len(path)][4] = None
       /\ (parent[id] = None => path = <<unwrap(get_asset(Storage, id).value)>>)
       /\ ((\A k \in 1..id :
              /\ k \in DOMAIN parent
              /\ IF k = 1 THEN parent[k] = None
                 ELSE parent[k] # None /\ unwrap(parent[k])[1] = k - 1)
            => /\ Len(path) = id
               /\ \A i \in 1..Len(path) : path[i][1] = id - i + 1)

\* A chain of three assets with different metadata was built by pausing the
\* last asset and blasting its child, and the whole chain is returned.
C11_Witness ==
  /\ last.op = "blast" /\ last.result = Ok /\ last.id = 3
  /\ get_parent_details(Storage, 2) = Some(Some(<<1, 100>>))
  /\ get_parent_details(Storage, 3) = Some(Some(<<2, 100>>))
  /\ get_metadata(Storage, 3) # get_metadata(Storage, 2)
  /\ Len(unwrap(query_emissions(Storage, 3).value)) = 3

\* C12: all-or-nothing asset record. In every reachable state, for every id
\* either the owner, metadata, paused, parent and emissions maps all contain
\* it and its emissions sequence is non-empty, or none of them contains it;
\* so owner_of, has_paused, get_metadata, get_asset_emissions,
\* get_parent_details, get_asset and query_emissions return None for exactly
\* the same ids, and get_asset and query_emissions never abort.
C12_AllOrNothingRecord ==
  \A id \in AssetIds :
    LET exists == contains(asset_owner, id)
    IN /\ contains(metadata, id) = exists
       /\ contains(paused, id) = exists
       /\ contains(parent, id) = exists
       /\ contains(co2_emissions, id) = exists
       /\ (exists => Len(co2_emissions[id]) > 0)
       /\ (owner_of(Storage, id) = None) = ~exists
       /\ (has_paused(Storage, id) = None) = ~exists
       /\ (get_metadata(Storage, id) = None) = ~exists
       /\ (get_asset_emissions(Storage, id) = None) = ~exists
       /\ (get_parent_details(Storage, id) = None) = ~exists
       /\ (get_asset(Storage, id).value = None) = ~exists
       /\ (query_emissions(Storage, id).value = None) = ~exists
       /\ ~get_asset(Storage, id).panic
       /\ ~query_emissions(Storage, id).panic

\* After a second asset was created as the child of the first, both are
\* complete records and the next id has none.
C12_Witness ==
  /\ last.op = "blast" /\ last.result = Ok /\ last.id = 2
  /\ get_parent_details(Storage, 2) = Some(Some(<<1, 100>>))
  /\ get_asset(Storage, 2).value # None
  /\ Len(unwrap(query_emissions(Storage, 2).value)) = 2
  /\ get_asset(Storage, 3).value = None
  /\ query_emissions(Storage, 3).value = None

\* C13: effect of a successful blast(to, metadata, emissions, parent). With n
\* the counter before the call, afterwards owner_of(n) = Some(to) (also when
\* `to` is not the caller), get_metadata(n) = metadata, has_paused(n) =
\* Some(false), get_parent_details(n) = Some(parent), get_asset_emissions(n)
\* is the input list in input order, n is in list_assets(to) (added to what
\* `to` held), the counter is n + 1, and every field of every asset that
\* existed before, and every other account's list, is unchanged.
C13_BlastEffect ==
  [][last'.op = "blast" /\ last'.result = Ok =>
       LET n == next_id
           to == last'.args[1]
           md == last'.args[2]
           emissions == last'.args[3]
           par == last'.args[4]
       IN /\ owner_of(Storage', n) = Some(to)
          /\ get_metadata(Storage', n) = Some(md)
          /\ has_paused(Storage', n) = Some(FALSE)
          /\ get_parent_details(Storage', n) = Some(par)
          /\ get_asset_emissions(Storage', n) = Some(emissions)
          /\ InSeq(list_assets(Storage', to), n)
          /\ next_id' = n + 1
          /\ \A x \in DOMAIN asset_owner :
               /\ owner_of(Storage', x) = owner_of(Storage, x)
               /\ get_metadata(Storage', x) = get_metadata(Storage, x)
               /\ has_paused(Storage', x) = has_paused(Storage, x)
               /\ get_parent_details(Storage', x) = get_parent_details(Storage, x)
               /\ get_asset_emissions(Storage', x) = get_asset_emissions(Storage, x)
          /\ \A A \in Accounts :
               list_assets(Storage', A)
                 = IF A = to THEN list_assets(Storage, A) \o <<n>>
                   ELSE list_assets(Storage, A)]_vars

\* alice blasted a second asset for bob, who already held the first.
C13_Witness ==
  /\ last.op = "blast" /\ last.result = Ok /\ last.id = 2 /\ last.caller = "alice"
  /\ list_assets(Storage, "bob") = <<1, 2>>
  /\ get_asset_emissions(Storage, 2) = Some(<<E1>>)
  /\ get_metadata(Storage, 2) = Some(<<0, 1, 2, 3>>)
  /\ has_paused(Storage, 2) = Some(FALSE)
  /\ next_id = 3

\* The ids in an account's list.
Listed(self, A) == {x \in AssetIds : InSeq(list_assets(self, A), x)}

\* C14: effect of a successful transfer(to, id, emissions) sent by the owner
\* `from`. Afterwards owner_of(id) = Some(to); id was taken out of
\* list_assets(from) and then put into list_assets(to), so it is in
\* list_assets(to), and not in list_assets(from) when `to` is another account;
\* get_asset_emissions(id) is the old sequence followed by the new items in
\* input order; the asset's metadata, paused flag and parent, the id counter
\* and every field of every other asset are unchanged.
C14_TransferEffect ==
  [][last'.op = "transfer" /\ last'.result = Ok =>
       LET id == last'.id
           from == last'.caller
           to == last'.args[1]
           emissions == last'.args[2]
       IN /\ owner_of(Storage, id) = Some(from)
          /\ owner_of(Storage', id) = Some(to)
          /\ InSeq(list_assets(Storage', to), id)
          /\ (to # from => ~InSeq(list_assets(Storage', from), id))
          /\ \A A \in Accounts :
               list_assets(Storage', A)
                 = SortedSeq((Listed(Storage, A) \ (IF A = from THEN {id} ELSE {}))
                               \cup (IF A = to THEN {id} ELSE {}))
          /\ get_asset_emissions(Storage', id) = Some(co2_emissions[id] \o emissions)
          /\ get_metadata(Storage', id) = get_metadata(Storage, id)
          /\ has_paused(Storage', id) = has_paused(Storage, id)
          /\ get_parent_details(Storage', id) = get_parent_details(Storage, id)
          /\ next_id' = next_id
          /\ DOMAIN asset_owner' = DOMAIN asset_owner
          /\ \A x \in DOMAIN asset_owner \ {id} :
               /\ owner_of(Storage', x) = owner_of(Storage, x)
               /\ get_metadata(Storage', x) = get_metadata(Storage, x)
               /\ has_paused(Storage', x) = has_paused(Storage, x)
               /\ get_parent_details(Storage', x) = get_parent_details(Storage, x)
               /\ get_asset_emissions(Storage', x) = get_asset_emissions(Storage, x)]_vars

\* alice, who held two assets, transferred the first to bob with two records.
C14_Witness ==
  /\ last.op = "transfer" /\ last.result = Ok /\ last.id = 1 /\ last.caller = "alice"
  /\ last.args = <<"bob", <<E2, E1>>>>
  /\ list_assets(Storage, "alice") = <<2>>
  /\ list_assets(Storage, "bob") = <<1>>
  /\ get_asset_emissions(Storage, 1) = Some(<<E1, E2, E1>>)

\* One Emission notification per record, in the order of the list.
EmissionEvents(id, emissions) ==
  [i \in 1..Len(emissions) |-> EmissionEvent(id, emissions[i])]

\* C15: notification sequence. A successful blast emits exactly one
\* Blasted(id, metadata, owner, parent) followed by one Emission per input
\* item in input order; a successful transfer exactly one Transfer(from, to,
\* id) followed by one Emission per input item in order; a successful pause
\* exactly one Paused(id); a successful add_emissions exactly one Emission;
\* and nothing else is ever emitted: a message that returns an error emits
\* nothing.
C15_NotificationSequence ==
  [][LET op == last'.op
         id == last'.id
         args == last'.args
     IN last'.events =
          IF last'.result # Ok THEN <<>>
          ELSE IF op = "blast"
          THEN <<BlastedEvent(id, args[2], args[1], args[4])>> \o EmissionEvents(id, args[3])
          ELSE IF op = "transfer"
          THEN <<TransferEvent(last'.caller, args[1], id)>> \o EmissionEvents(id, args[2])
          ELSE IF op = "pause"
          THEN <<PausedEvent(id)>>
          ELSE <<EmissionEvent(id, args[1])>>]_vars

\* The arguments <<metadata, emissions, parent>> of the blasts whose error is
\* looked at: every metadata with every list but the full one, without a
\* parent and with a parent that is never valid (relation 0); and valid
\* metadata and emissions with every parent.
BlastOrderInputs ==
  {<<md, emissions, par>> : md \in MetadataInputs,
                            emissions \in BlastEmissions \ {FullList},
                            par \in {None, Some(<<1, 0>>)}}
    \cup {<<<<0, 1, 2, 3>>, <<E1>>, par>> : par \in ParentInputs}

\* C16: validation order of blast. Whatever the state, the caller and the
\* arguments, the result is the error of the first check that fails in the
\* order: metadata length (MetadataOverflow), empty list (EmissionsEmpty),
\* list longer than the maximum (EmissionsOverflow), a zero-valued item
\* (ZeroEmissionsItem), parent validity (the error of the parent check), id
\* allocation (AssetIdOverflow); and Ok when none fails. So oversize metadata
\* with an oversize list yields MetadataOverflow, and an oversize list that
\* holds a zero item yields EmissionsOverflow.
C16_BlastValidationOrder ==
  \A caller \in Accounts, in \in BlastOrderInputs :
    LET md == in[1]
        emissions == in[2]
        par == in[3]
    IN blast(Storage, caller, caller, md, emissions, par).result
         = IF Len(md) > MAX_METADATA_LENGTH THEN "MetadataOverflow"
           ELSE IF Len(emissions) = 0 THEN "EmissionsEmpty"
           ELSE IF Len(emissions) > MAX_EMISSIONS_PER_ASSET THEN "EmissionsOverflow"
           ELSE IF \E i \in 1..Len(emissions) : emissions[i].emissions = 0
           THEN "ZeroEmissionsItem"
           ELSE IF ensure_proper_parent(Storage, par, caller) # Ok
           THEN ensure_proper_parent(Storage, par, caller)
           ELSE IF next_id = AssetIdMax THEN "AssetIdOverflow"
           ELSE Ok

\* The ids have run out, asset 1 is alice's and not paused: a blast with a
\* zero item and a bad parent is refused for the item, one with a bad parent
\* for the parent, and only a valid one for the lack of an id.
C16_Witness ==
  /\ last.op = "blast" /\ last.result = "AssetIdOverflow"
  /\ next_id = AssetIdMax
  /\ blast(Storage, "alice", "alice", Bytes(MAX_METADATA_LENGTH + 1),
           OverfullList, Some(<<1, 100>>)).result = "MetadataOverflow"
  /\ blast(Storage, "alice", "alice", <<0, 1, 2, 3>>,
           LongZero(MAX_EMISSIONS_PER_ASSET + 1), Some(<<1, 100>>)).result = "EmissionsOverflow"
  /\ blast(Storage, "alice", "alice", <<0, 1, 2, 3>>,
           <<E1, Zero>>, Some(<<1, 100>>)).result = "ZeroEmissionsItem"
  /\ blast(Storage, "alice", "alice", <<0, 1, 2, 3>>,
           <<E1>>, Some(<<1, 100>>)).result = "NotPaused"
  /\ blast(Storage, "alice", "alice", <<0, 1, 2, 3>>,
           <<E1>>, None).result = "AssetIdOverflow"

\* The lists of the transfers whose error is looked at: empty, with a zero
\* item, too long, and valid.
TransferOrderEmissions == {<<>>, <<E2, Zero>>, OverfullList, <<E1>>}

\* C17: validation order of transfer, state checks before input checks.
\* Whatever the emissions list (empty, invalid or valid): a transfer of an id
\* that does not exist returns AssetNotFound; of an existing asset by a caller
\* who is not its owner, NotOwner, paused or not; of a paused asset by its
\* owner, AlreadyPaused; and only for an unpaused asset sent by its owner is
\* the list looked at: EmissionsEmpty for the empty list, and none of the
\* three state errors for the others.
C17_TransferValidationOrder ==
  \A caller \in Accounts, to \in Accounts, id \in IdInputs,
     emissions \in TransferOrderEmissions :
    LET result == transfer(Storage, caller, to, id, emissions).result
    IN IF owner_of(Storage, id) = None THEN result = "AssetNotFound"
       ELSE IF owner_of(Storage, id) # Some(caller) THEN result = "NotOwner"
       ELSE IF has_paused(Storage, id) = Some(TRUE) THEN result = "AlreadyPaused"
       ELSE IF Len(emissions) = 0 THEN result = "EmissionsEmpty"
       ELSE result \notin {"AssetNotFound", "NotOwner", "AlreadyPaused", "EmissionsEmpty"}

\* A transfer of a paused asset by an account that does not own it was
\* refused with NotOwner; its owner is refused with AlreadyPaused, also with
\* an empty list.
C17_Witness ==
  /\ last.op = "transfer" /\ last.result = "NotOwner"
  /\ has_paused(Storage, last.id) = Some(TRUE)
  /\ \A to \in Accounts :
       transfer(Storage, unwrap(owner_of(Storage, last.id)), to, last.id, <<>>).result
         = "AlreadyPaused"

\* C18: in transfer the combined-length check precedes the per-item check.
\* For a transfer of an unpaused asset by its owner with a non-empty list: if
\* the existing length plus the new length exceeds MAX_EMISSIONS_PER_ASSET
\* and the new list holds a zero-valued item, the result is
\* EmissionsOverflow, not ZeroEmissionsItem.
C18_CombinedLengthBeforeItems ==
  \A id \in DOMAIN asset_owner, to \in Accounts, emissions \in TransferEmissions :
    (/\ has_paused(Storage, id) = Some(FALSE)
     /\ Len(emissions) > 0
     /\ Len(co2_emissions[id]) + Len(emissions) > MAX_EMISSIONS_PER_ASSET
     /\ \E i \in 1..Len(emissions) : emissions[i].emissions = 0)
      => transfer(Storage, asset_owner[id], to, id, emissions).result = "EmissionsOverflow"

\* C19: validation order of add_emissions. Whatever the state, the caller,
\* the id and the item, the result is the error of the first check that fails
\* in the order: asset exists (AssetNotFound), caller is its owner (NotOwner),
\* asset not paused (AlreadyPaused), item value non-zero (ZeroEmissionsItem),
\* existing length + 1 within the maximum (EmissionsOverflow); and Ok when
\* none fails. So a zero-valued item for an asset that holds the maximum
\* yields ZeroEmissionsItem, and a non-owner adding to a paused asset NotOwner.
C19_AddEmissionsValidationOrder ==
  \A caller \in Accounts, id \in IdInputs, item \in ItemInputs :
    add_emissions(Storage, caller, id, item).result
      = IF owner_of(Storage, id) = None THEN "AssetNotFound"
        ELSE IF owner_of(Storage, id) # Some(caller) THEN "NotOwner"
        ELSE IF has_paused(Storage, id) = Some(TRUE) THEN "AlreadyPaused"
        ELSE IF item.emissions = 0 THEN "ZeroEmissionsItem"
        ELSE IF Len(co2_emissions[id]) + 1 > MAX_EMISSIONS_PER_ASSET THEN "EmissionsOverflow"
        ELSE Ok

\* The owner sent a zero-valued item for an asset that holds the maximum
\* number of records; a valid item is refused for the length.
C19_Witness ==
  /\ last.op = "add_emissions" /\ last.result = "ZeroEmissionsItem"
  /\ owner_of(Storage, last.id) = Some(last.caller)
  /\ Len(co2_emissions[last.id]) = MAX_EMISSIONS_PER_ASSET
  /\ add_emissions(Storage, last.caller, last.id, E2).result = "EmissionsOverflow"

\* C20: validation order of pause. For every caller, pause of an id that does
\* not exist returns AssetNotFound (never NotOwner); pause of an existing asset
\* by a caller who is not its owner returns NotOwner, whether or not the asset
\* is already paused; pause of an already paused asset by its owner returns
\* AlreadyPaused; and pause of an unpaused asset by its owner returns Ok.
C20_PauseValidationOrder ==
  \A caller \in Accounts, id \in IdInputs :
    pause(Storage, caller, id).result
      = IF owner_of(Storage, id) = None THEN "AssetNotFound"
        ELSE IF owner_of(Storage, id) # Some(caller) THEN "NotOwner"
        ELSE IF has_paused(Storage, id) = Some(TRUE) THEN "AlreadyPaused"
        ELSE Ok

\* An account that does not own a paused asset tried to pause it, and an id
\* that does not exist is reported as such to everyone.
C20_Witness ==
  /\ last.op = "pause" /\ last.result = "NotOwner"
  /\ has_paused(Storage, last.id) = Some(TRUE)
  /\ pause(Storage, unwrap(owner_of(Storage, last.id)), last.id).result = "AlreadyPaused"
  /\ \A caller \in Accounts : pause(Storage, caller, 0).result = "AssetNotFound"

\* C21: pause of an already paused asset always fails. For every asset with
\* has_paused(id) = Some(true), pause(id) sent by its owner returns
\* AlreadyPaused, and sent by any other caller returns NotOwner (the owner is
\* checked before the paused flag); it never returns Ok.
C21_PauseOfPausedFails ==
  \A id \in DOMAIN paused, caller \in Accounts :
    has_paused(Storage, id) = Some(TRUE) =>
      pause(Storage, caller, id).result
        = IF owner_of(Storage, id) = Some(caller) THEN "AlreadyPaused" ELSE "NotOwner"

\* C21 as stated: for every asset with has_paused(id) = Some(true) and every
\* caller, pause(id) returns AlreadyPaused.
C21_AlreadyPausedForEveryCaller ==
  \A id \in DOMAIN paused, caller \in Accounts :
    has_paused(Storage, id) = Some(TRUE) =>
      pause(Storage, caller, id).result = "AlreadyPaused"

\* The owner of a paused asset paused it again and was refused; another
\* account would be told that it is not the owner.
C21_Witness ==
  /\ last.op = "pause" /\ last.result = "AlreadyPaused"
  /\ owner_of(Storage, last.id) = Some(last.caller)
  /\ \E caller \in Accounts \ {last.caller} :
       pause(Storage, caller, last.id).result = "NotOwner"

\* C22: error order of the parent check in blast. With valid metadata, a
\* valid emissions list and parent = Some((p, r)): an unknown p yields
\* AssetNotFound; an existing p that the caller does not own yields NotOwner,
\* also when r = 0 or p is not paused; p owned by the caller with r = 0
\* yields InvalidAssetRelation, also when p is not paused; p owned by the
\* caller with r non-zero and p not paused yields NotPaused; only a paused p
\* owned by the caller with r non-zero passes the check.
C22_ParentCheckOrder ==
  \A caller \in Accounts, par \in ParentInputs \ {None} :
    LET p == unwrap(par)[1]
        r == unwrap(par)[2]
    IN blast(Storage, caller, caller, <<0, 1, 2, 3>>, <<E1>>, par).result
         = IF owner_of(Storage, p) = None THEN "AssetNotFound"
           ELSE IF owner_of(Storage, p) # Some(caller) THEN "NotOwner"
           ELSE IF r = 0 THEN "InvalidAssetRelation"
           ELSE IF has_paused(Storage, p) # Some(TRUE) THEN "NotPaused"
           ELSE IF next_id = AssetIdMax THEN "AssetIdOverflow"
           ELSE Ok

\* A blast naming an unpaused parent was refused with NotPaused; in that
\* state the same parent with relation 0 yields InvalidAssetRelation, the
\* same parent named by another account yields NotOwner, and an id that was
\* never handed out yields AssetNotFound.
C22_Witness ==
  /\ last.op = "blast" /\ last.result = "NotPaused"
  /\ \E p \in DOMAIN asset_owner :
       /\ owner_of(Storage, p) = Some(last.caller)
       /\ has_paused(Storage, p) = Some(FALSE)
       /\ blast(Storage, last.caller, last.caller, <<0, 1, 2, 3>>, <<E1>>,
                Some(<<p, 0>>)).result = "InvalidAssetRelation"
       /\ \E other \in Accounts \ {last.caller} :
            blast(Storage, other, other, <<0, 1, 2, 3>>, <<E1>>,
                  Some(<<p, 0>>)).result = "NotOwner"
  /\ blast(Storage, last.caller, last.caller, <<0, 1, 2, 3>>, <<E1>>,
           Some(<<next_id, 100>>)).result = "AssetNotFound"

\* C23: metadata and parent are immutable. A successful blast stores the
\* metadata and the parent it was given under the new id, and no later step
\* (transfer, pause, add_emissions or another blast, successful or not)
\* changes get_metadata(id) or get_parent_details(id) of an existing asset;
\* so in every state after its creation both equal the values passed to the
\* blast that created the asset.
C23_ImmutableMetadataAndParent ==
  [][/\ \A id \in DOMAIN asset_owner :
          /\ get_metadata(Storage', id) = get_metadata(Storage, id)
          /\ get_parent_details(Storage', id) = get_parent_details(Storage, id)
     /\ (last'.op = "blast" /\ last'.result = Ok) =>
          /\ get_metadata(Storage', next_id) = Some(last'.args[2])
          /\ get_parent_details(Storage', next_id) = Some(last'.args[4])
     /\ \A id \in DOMAIN metadata' \ DOMAIN metadata :
          last'.op = "blast" /\ last'.result = Ok /\ id = next_id
     /\ \A id \in DOMAIN parent' \ DOMAIN parent :
          last'.op = "blast" /\ last'.result = Ok /\ id = next_id]_vars

\* Asset 1 has changed hands and its new owner has appended a record to it;
\* its metadata and parent are still those of its blast.
C23_Witness ==
  /\ calls = 3 /\ last.op = "add_emissions" /\ last.result = Ok /\ last.id = 1
  /\ last.caller = "bob" /\ owner_of(Storage, 1) = Some("bob")
  /\ Len(co2_emissions[1]) >= 3
  /\ get_metadata(Storage, 1) = Some(<<0, 1, 2, 3>>)
  /\ get_parent_details(Storage, 1) = Some(None)

\* C24: the metadata bound. In every reachable state a blast whose metadata
\* is longer than MAX_METADATA_LENGTH fails with MetadataOverflow, whatever
\* its other arguments; a blast with metadata of exactly MAX_METADATA_LENGTH
\* bytes, or with empty metadata, is not refused for its metadata (it
\* succeeds and stores the blob unless the ids have run out); and every
\* stored metadata blob has at most MAX_METADATA_LENGTH bytes.
C24_MetadataBound ==
  /\ \A id \in DOMAIN metadata : Len(metadata[id]) <= MAX_METADATA_LENGTH
  /\ \A caller \in Accounts :
       /\ \A emissions \in {<<E1>>, <<>>, <<Zero>>} :
            blast(Storage, caller, caller, OverlongMetadata,
                  emissions, None).result = "MetadataOverflow"
       /\ \A md \in {<<>>, MaxMetadata} :
            LET b == blast(Storage, caller, caller, md, <<E1>>, None)
            IN IF next_id = AssetIdMax THEN b.result = "AssetIdOverflow"
               ELSE b.result = Ok /\ get_metadata(b.self, next_id) = Some(md)

\* An asset was blasted with metadata of exactly MAX_METADATA_LENGTH bytes.
C24_Witness ==
  /\ last.op = "blast" /\ last.result = Ok
  /\ Len(metadata[last.id]) = MAX_METADATA_LENGTH
  /\ get_metadata(Storage, last.id) = Some(MaxMetadata)

\* Lists within the length bound that hold a zero-valued record as the only,
\* the first, a middle and the last element.
ZeroLists == {<<Zero>>, <<Zero, E1>>, <<E1, Zero, E2>>, <<E1, E2, Zero>>}

\* C25: non-zero emissions. In every reachable state a blast with valid
\* metadata whose list (within the length bound) holds a zero-valued record
\* at any position fails with ZeroEmissionsItem; so does a transfer of such a
\* list by the owner of an unpaused asset, and an add_emissions of a
\* zero-valued item by the owner of an unpaused asset; and every record
\* stored in any asset's emissions sequence has a non-zero emissions value.
C25_NonZeroEmissions ==
  /\ \A id \in DOMAIN co2_emissions :
       \A i \in 1..Len(co2_emissions[id]) : co2_emissions[id][i].emissions # 0
  /\ \A caller \in Accounts, emissions \in ZeroLists :
       blast(Storage, caller, caller, <<0, 1, 2, 3>>, emissions, None).result
         = "ZeroEmissionsItem"
  /\ \A id \in DOMAIN asset_owner :
       has_paused(Storage, id) = Some(FALSE) =>
         LET owner == unwrap(owner_of(Storage, id))
         IN /\ add_emissions(Storage, owner, id, Zero).result = "ZeroEmissionsItem"
            /\ \A to \in Accounts, emissions \in ZeroLists :
                 transfer(Storage, owner, to, id, emissions).result
                   = "ZeroEmissionsItem"

\* The owner of an unpaused asset that already holds several records tried
\* to append a zero-valued item and was refused.
C25_Witness ==
  /\ last.op = "add_emissions" /\ last.result = "ZeroEmissionsItem"
  /\ owner_of(Storage, last.id) = Some(last.caller)
  /\ has_paused(Storage, last.id) = Some(FALSE)
  /\ Len(co2_emissions[last.id]) >= 2
  /\ \A i \in 1..Len(co2_emissions[last.id]) : co2_emissions[last.id][i].emissions # 0

\* C26: list_assets never fails. In every reachable state and for every
\* account, one that no message ever named included, list_assets returns a
\* list of ids without repetition that holds exactly the ids whose owner is
\* the account: the empty list for an account that has never owned an asset
\* (it has no entry in the index), the empty list again for an account that
\* has transferred away everything it owned (its entry is an empty set).
C26_ListAssets ==
  \A A \in Accounts \cup {"charlie"} :
    LET l == list_assets(Storage, A)
    IN /\ l \in Seq(AssetIds)
       /\ \A i, j \in 1..Len(l) : i # j => l[i] # l[j]
       /\ {l[i] : i \in 1..Len(l)}
            = {x \in DOMAIN asset_owner : owner_of(Storage, x) = Some(A)}
       /\ A \notin DOMAIN owned_assets => l = <<>>
       /\ (A \in DOMAIN owned_assets /\ owned_assets[A] = {}) => l = <<>>

\* alice has transferred her only asset to bob: her list is empty again, and
\* so is the list of an account that never owned anything.
C26_Witness ==
  /\ last.op = "transfer" /\ last.result = Ok /\ last.caller = "alice"
  /\ "alice" \in DOMAIN owned_assets /\ owned_assets["alice"] = {}
  /\ list_assets(Storage, "alice") = <<>>
  /\ list_assets(Storage, "bob") = <<last.id>>
  /\ "charlie" \notin DOMAIN owned_assets
  /\ list_assets(Storage, "charlie") = <<>>

\* C27: identifier overflow, with the ids bounded by AssetIdMax. While the
\* counter holds AssetIdMax every blast fails, a blast that passes the
\* metadata, emissions and parent checks fails with AssetIdOverflow, and the
\* failing blast leaves the counter and every map as they were, hands out no
\* id and emits no notification. AssetIdOverflow is returned in no other
\* state; there a successful blast hands out the value of the counter and
\* increases the counter by exactly 1, and no other step changes the counter.
C27_IdentifierOverflow ==
  [][/\ next_id = AssetIdMax =>
          /\ last'.op = "blast" =>
               /\ last'.result # Ok
               /\ store' = store
               /\ last'.events = <<>>
          /\ \A caller \in Accounts, md \in ChainMetadata, par \in ChainParents :
               ensure_proper_parent(Storage, par, caller) = Ok =>
                 LET b == blast(Storage, caller, caller, md, <<E2, E1>>, par)
                 IN /\ b.result = "AssetIdOverflow"
                    /\ b.self = Storage
                    /\ b.events = <<>>
     /\ (last'.op = "blast" /\ last'.result = "AssetIdOverflow") => next_id = AssetIdMax
     /\ (last'.op = "blast" /\ last'.result = Ok) =>
          /\ next_id < AssetIdMax
          /\ next_id' = next_id + 1
          /\ DOMAIN asset_owner' = DOMAIN asset_owner \cup {next_id}
     /\ ~(last'.op = "blast" /\ last'.result = Ok) => next_id' = next_id]_vars

\* Every id below the maximum has been handed out and a later blast was
\* refused: the counter still holds the maximum and no asset carries it.
C27_Witness ==
  /\ last.op = "blast" /\ last.result = "AssetIdOverflow" /\ last.events = <<>>
  /\ calls = AssetIdMax + 1
  /\ next_id = AssetIdMax
  /\ DOMAIN asset_owner = 1..(AssetIdMax - 1)

\* C28: the provenance walk terminates. In every reachable state and for
\* every existing id, query_emissions(id) neither aborts nor runs for ever;
\* it visits at most id assets, the ids visited strictly decrease, every
\* asset visited exists, and the last asset visited has no parent.
C28_WalkTerminates ==
  \A id \in DOMAIN asset_owner :
    LET q == query_emissions(Storage, id)
        path == unwrap(q.value)
    IN /\ ~q.diverges /\ ~q.panic /\ q.value # None
       /\ 1 <= Len(path) /\ Len(path) <= id
       /\ \A i \in 1..(Len(path) - 1) : path[i + 1][1] < path[i][1]
       /\ \A i \in 1..Len(path) : ensure_exists(Storage, path[i][1]) = Ok
       /\ get_parent_details(Storage, path[Len(path)][1]) = Some(None)

\* The walk from asset 3 visits as many assets as its id allows, and the
\* walk from asset 2 stops after two.
C28_Witness ==
  /\ 3 \in DOMAIN asset_owner
  /\ Len(unwrap(query_emissions(Storage, 3).value)) = 3
  /\ Len(unwrap(query_emissions(Storage, 2).value)) = 2
  /\ Len(unwrap(query_emissions(Storage, 1).value)) = 1
  /\ calls = ChainCalls

\* C29: no partial mutation on a failed pause or add_emissions. Every pause
\* and every add_emissions that returns an error (AssetNotFound, NotOwner,
\* AlreadyPaused, ZeroEmissionsItem or EmissionsOverflow) leaves the owner,
\* metadata, emissions, paused and parent maps, the ownership index and the
\* id counter unchanged and emits no notification, and it returns no error
\* but these.
C29_FailedPauseAndAddChangeNothing ==
  [][(last'.op \in {"pause", "add_emissions"} /\ last'.result # Ok) =>
       /\ store' = store
       /\ last'.events = <<>>
       /\ last'.result \in IF last'.op = "pause"
                            THEN {"AssetNotFound", "NotOwner", "AlreadyPaused"}
                            ELSE {"AssetNotFound", "NotOwner", "AlreadyPaused",
                                  "ZeroEmissionsItem", "EmissionsOverflow"}]_vars

\* The owner of an unpaused asset that holds the maximum number of records
\* tried to append one more: the call was refused and the sequence is as long
\* as before.
C29_Witness ==
  /\ last.op = "add_emissions" /\ last.result = "EmissionsOverflow"
  /\ last.events = <<>>
  /\ owner_of(Storage, last.id) = Some(last.caller)
  /\ has_paused(Storage, last.id) = Some(FALSE)
  /\ get_asset_emissions(Storage, last.id) = Some(FullList)

\* C30: frame of a successful add_emissions(id, item). The emissions sequence
\* of id becomes the old sequence with item appended as its last element,
\* one Emission notification for item is emitted, and nothing else changes:
\* the owner, metadata, paused flag and parent of id, every field of every
\* other asset, the ownership index and the id counter are as before.
C30_AddEmissionsFrame ==
  [][(last'.op = "add_emissions" /\ last'.result = Ok) =>
       LET id == last'.id
           item == last'.args[1]
       IN /\ get_asset_emissions(Storage, id) # None
          /\ get_asset_emissions(Storage', id)
               = Some(Append(unwrap(get_asset_emissions(Storage, id)), item))
          /\ last'.events = <<EmissionEvent(id, item)>>
          /\ owner_of(Storage', id) = owner_of(Storage, id)
          /\ get_metadata(Storage', id) = get_metadata(Storage, id)
          /\ has_paused(Storage', id) = has_paused(Storage, id)
          /\ get_parent_details(Storage', id) = get_parent_details(Storage, id)
          /\ \A x \in AssetIds \ {id} :
               /\ owner_of(Storage', x) = owner_of(Storage, x)
               /\ get_metadata(Storage', x) = get_metadata(Storage, x)
               /\ has_paused(Storage', x) = has_paused(Storage, x)
               /\ get_parent_details(Storage', x) = get_parent_details(Storage, x)
               /\ get_asset_emissions(Storage', x) = get_asset_emissions(Storage, x)
          /\ owned_assets' = owned_assets
          /\ asset_owner' = asset_owner /\ metadata' = metadata
          /\ paused' = paused /\ parent' = parent
          /\ DOMAIN co2_emissions' = DOMAIN co2_emissions
          /\ next_id' = next_id]_vars

\* A record was appended to asset 1 while a second asset exists: asset 1
\* ends with the new record and asset 2 is as it was blasted.
C30_Witness ==
  /\ last.op = "add_emissions" /\ last.result = Ok /\ last.id = 1
  /\ last.args = <<E2>>
  /\ get_asset_emissions(Storage, 1) = Some(<<E1, E2>>)
  /\ get_asset_emissions(Storage, 2) = Some(<<E1>>)
  /\ next_id = 3

\* C31: frame of pause(id). It succeeds exactly when the caller owns id and
\* id is not paused; a successful pause sets has_paused(id) to Some(true),
\* emits one Paused notification, and changes nothing else: the owner,
\* metadata, emissions and parent of id, every field of every other asset,
\* the ownership index and the id counter are as before.
C31_PauseFrame ==
  [][last'.op = "pause" =>
       LET id == last'.id
       IN /\ (last'.result = Ok) <=>
               (/\ owner_of(Storage, id) = Some(last'.caller)
                /\ has_paused(Storage, id) = Some(FALSE))
          /\ last'.result = Ok =>
               /\ has_paused(Storage', id) = Some(TRUE)
               /\ last'.events = <<PausedEvent(id)>>
               /\ owner_of(Storage', id) = owner_of(Storage, id)
               /\ get_metadata(Storage', id) = get_metadata(Storage, id)
               /\ get_asset_emissions(Storage', id) = get_asset_emissions(Storage, id)
               /\ get_parent_details(Storage', id) = get_parent_details(Storage, id)
               /\ \A x \in AssetIds \ {id} :
                    /\ owner_of(Storage', x) = owner_of(Storage, x)
                    /\ get_metadata(Storage', x) = get_metadata(Storage, x)
                    /\ has_paused(Storage', x) = has_paused(Storage, x)
                    /\ get_parent_details(Storage', x) = get_parent_details(Storage, x)
                    /\ get_asset_emissions(Storage', x) = get_asset_emissions(Storage, x)
               /\ owned_assets' = owned_assets
               /\ asset_owner' = asset_owner /\ metadata' = metadata
               /\ co2_emissions' = co2_emissions /\ parent' = parent
               /\ DOMAIN paused' = DOMAIN paused
               /\ next_id' = next_id]_vars

\* bob paused asset 1, which he received from alice, while asset 2 exists
\* and stays unpaused.
C31_Witness ==
  /\ last.op = "pause" /\ last.result = Ok /\ last.id = 1 /\ last.caller = "bob"
  /\ has_paused(Storage, 1) = Some(TRUE)
  /\ has_paused(Storage, 2) = Some(FALSE)
  /\ owner_of(Storage, 1) = Some("bob")

\* C32: the parent-link invariant. In every reachable state, for every asset
\* X whose parent is Some((p, r)): p is an existing asset, p < X, r is
\* non-zero and p is paused, so that transfer and add_emissions are refused
\* on p; and no asset is among its own ancestors.
C32_ParentLink ==
  \A X \in DOMAIN parent :
    /\ parent[X] # None =>
         LET p == unwrap(parent[X])[1]
             r == unwrap(parent[X])[2]
         IN /\ ensure_exists(Storage, p) = Ok
            /\ p < X
            /\ r # 0
            /\ has_paused(Storage, p) = Some(TRUE)
            /\ \A to \in Accounts :
                 transfer(Storage, unwrap(owner_of(Storage, p)), to, p, <<E1>>).result
                   = "AlreadyPaused"
            /\ add_emissions(Storage, unwrap(owner_of(Storage, p)), p, E1).result
                 = "AlreadyPaused"
    /\ LET q == query_emissions(Storage, X)
       IN /\ ~q.diverges /\ ~q.panic /\ q.value # None
          /\ \A i \in 2..Len(unwrap(q.value)) : unwrap(q.value)[i][1] # X

\* Asset 3 was split off asset 2, which was split off asset 1: both parents
\* are paused and older than their children.
C32_Witness ==
  /\ get_parent_details(Storage, 3) = Some(Some(<<2, 100>>))
  /\ get_parent_details(Storage, 2) = Some(Some(<<1, 100>>))
  /\ has_paused(Storage, 1) = Some(TRUE) /\ has_paused(Storage, 2) = Some(TRUE)
  /\ has_paused(Storage, 3) = Some(FALSE)

\* C33: counter and existence. In every reachable state the existing asset
\* ids are exactly 1, ..., next_id - 1: id 0 and every id from next_id on do
\* not exist, so the id that the allocation hands out is never present and
\* the check ensure_not_exist that follows it passes.
C33_CounterExistence ==
  /\ 1 <= next_id /\ next_id <= AssetIdMax
  /\ DOMAIN asset_owner = 1..(next_id - 1)
  /\ \A id \in AssetIds :
       (id = 0 \/ id >= next_id) =>
         /\ ensure_exists(Storage, id) = "AssetNotFound"
         /\ owner_of(Storage, id) = None
         /\ get_asset(Storage, id).value = None
  /\ LET a == alloc_next_id(Storage)
     IN a.result = Ok =>
          /\ a.value = next_id
          /\ ensure_not_exist(a.self, a.value) = Ok

\* Every id below the maximum exists, the maximum does not, and no further
\* id can be handed out.
C33_Witness ==
  /\ next_id = AssetIdMax
  /\ DOMAIN asset_owner = 1..(AssetIdMax - 1)
  /\ ensure_exists(Storage, AssetIdMax) = "AssetNotFound"
  /\ alloc_next_id(Storage).result = "AssetIdOverflow"

\* C34: an asset at the emissions cap can no longer change hands. Once the
\* emissions sequence of an asset has length MAX_EMISSIONS_PER_ASSET, every
\* transfer of it returns an error, and no step changes its owner, the
\* index sets it is a member of, or its emissions.
C34_CappedAssetStaysPut ==
  [][\A id \in DOMAIN co2_emissions :
       Len(co2_emissions[id]) = MAX_EMISSIONS_PER_ASSET =>
         /\ (last'.op = "transfer" /\ last'.id = id) => last'.result # Ok
         /\ owner_of(Storage', id) = owner_of(Storage, id)
         /\ \A A \in Accounts :
              InSeq(list_assets(Storage', A), id) <=> InSeq(list_assets(Storage, A), id)
         /\ get_asset_emissions(Storage', id) = get_asset_emissions(Storage, id)]_vars

\* C35: transfer to oneself. A successful transfer(to, id, emissions) whose
\* `to` is the caller, the current owner, leaves owner_of(id) and
\* list_assets(to) unchanged, with id listed exactly once; it appends the
\* emissions to the asset's sequence and emits Transfer(from = to, to, id)
\* followed by one Emission notification per item.
C35_SelfTransfer ==
  [][(/\ last'.op = "transfer" /\ last'.result = Ok
      /\ last'.args[1] = last'.caller) =>
       LET id == last'.id
           to == last'.args[1]
           emissions == last'.args[2]
           l == list_assets(Storage', to)
       IN /\ owner_of(Storage, id) = Some(to)
          /\ owner_of(Storage', id) = owner_of(Storage, id)
          /\ l = list_assets(Storage, to)
          /\ Cardinality({i \in 1..Len(l) : l[i] = id}) = 1
          /\ \A A \in Accounts : list_assets(Storage', A) = list_assets(Storage, A)
          /\ get_asset_emissions(Storage', id) = Some(co2_emissions[id] \o emissions)
          /\ last'.events = <<TransferEvent(to, to, id)>> \o EmissionEvents(id, emissions)]_vars

\* bob, who holds assets 1 and 2, transferred asset 1 to himself with two
\* records.
C35_Witness ==
  /\ last.op = "transfer" /\ last.result = Ok /\ last.id = 1 /\ last.caller = "bob"
  /\ last.args = <<"bob", <<E2, E1>>>>
  /\ list_assets(Storage, "bob") = <<1, 2>>
  /\ owner_of(Storage, 1) = Some("bob")
  /\ get_asset_emissions(Storage, 1) = Some(<<E1, E2, E1>>)
  /\ last.events[1] = TransferEvent("bob", "bob", 1)

\* The notifications of one kind in a log.
OfKind(log, kind) == SelectSeq(log, LAMBDA e : e.event = kind)

\* The record that an Emission notification describes.
RecordOf(e) ==
  [category |-> e.category, primary |-> e.primary, balanced |-> e.balanced,
   emissions |-> e.emissions, date |-> e.date]

\* C36: the notification log mirrors the store. In every reachable state and
\* for every asset id: the Emission notifications emitted for the id, in the
\* order of their emission, carry exactly the records (category, primary,
\* balanced, date, emissions) of its stored emissions sequence; exactly one
\* Blasted notification was emitted for an existing asset, with the stored
\* metadata and parent, and none for an id that does not exist; and the `to`
\* of the last Transfer notification for the id (the owner in its Blasted
\* notification if there is none) is owner_of(id).
C36_LogMirrorsStore ==
  \A id \in AssetIds :
    LET em == OfKind(emitted[id], "Emission")
        bl == OfKind(emitted[id], "Blasted")
        tr == OfKind(emitted[id], "Transfer")
    IN IF owner_of(Storage, id) = None
       THEN emitted[id] = <<>>
       ELSE /\ get_asset_emissions(Storage, id)
                 = Some([i \in 1..Len(em) |-> RecordOf(em[i])])
            /\ Len(bl) = 1
            /\ get_metadata(Storage, id) = Some(bl[1].metadata)
            /\ get_parent_details(Storage, id) = Some(bl[1].parent)
            /\ owner_of(Storage, id)
                 = Some(IF tr = <<>> THEN bl[1].owner ELSE tr[Len(tr)].to)

\* Asset 1 was blasted for alice, transferred to bob with two records, and
\* extended by bob: its log holds the Blasted notification, one Transfer and
\* four Emission notifications.
C36_Witness ==
  /\ last.op = "add_emissions" /\ last.result = Ok /\ last.id = 1
  /\ Len(OfKind(emitted[1], "Blasted")) = 1
  /\ OfKind(emitted[1], "Blasted")[1].owner = "alice"
  /\ OfKind(emitted[1], "Transfer") = <<TransferEvent("alice", "bob", 1)>>
  /\ Len(OfKind(emitted[1], "Emission")) = 4
  /\ get_asset_emissions(Storage, 1) = Some(<<E1, E2, E1, E2>>)
  /\ owner_of(Storage, 1) = Some("bob")

\* C37: upgrade authority in the updated contract. contract_owner is the
\* account that called the constructor, and no message changes it:
\* set_contract_owner returns AlreadyPaused for every caller and argument
\* and changes nothing. The code at the contract's address changes only in
\* a set_code sent by contract_owner; a set_code sent by anybody else aborts
\* and leaves the code and the storage as they were.
C37_UpgradeAuthority ==
  [][/\ last.op = "new" => contract_owner = last.caller
     /\ contract_owner' = contract_owner
     /\ last'.op = "set_contract_owner" =>
          /\ last'.result = "AlreadyPaused"
          /\ store' = store
          /\ code_hash' = code_hash
          /\ last'.events = <<>>
     /\ code_hash' # code_hash =>
          /\ last'.op = "set_code"
          /\ last'.caller = contract_owner
          /\ last'.result = Ok
          /\ code_hash' = last'.args[1]
     /\ (last'.op = "set_code" /\ last'.caller # contract_owner) =>
          /\ last'.result = "panic"
          /\ code_hash' = code_hash
          /\ store' = store]_vars

\* With its third message the contract owner switched the code; the storage
\* is as the constructor left it.
C37_Witness ==
  /\ calls = 3
  /\ last.op = "set_code" /\ last.result = Ok /\ last.caller = contract_owner
  /\ code_hash = "other"
  /\ store = <<1, <<>>, <<>>, <<>>, <<>>, <<>>, <<>>>>

\* C38: the defensive errors are unreachable. From a fresh ledger no blast,
\* transfer, pause or add_emissions, whoever sends it, returns
\* AssetAlreadyExists or InvalidSmartContractState: in every reachable state
\* the id that the allocation would hand out is not present, and every
\* existing asset is in the index set of its owner, so that the removal in
\* transfer finds the set and the id in it.
C38_DefensiveErrorsUnreachable ==
  /\ last.result \notin {"AssetAlreadyExists", "InvalidSmartContractState"}
  /\ ensure_not_exist(Storage, next_id) = Ok
  /\ \A id \in DOMAIN asset_owner :
       LET owner == unwrap(owner_of(Storage, id))
       IN /\ owner \in DOMAIN owned_assets
          /\ id \in owned_assets[owner]
          /\ remove_owned_asset(Storage, owner, id).result = Ok
  /\ \A caller \in Accounts, to \in Accounts :
       /\ blast(Storage, caller, to, <<0, 1, 2, 3>>, <<E1>>, None).result
            = IF next_id = AssetIdMax THEN "AssetIdOverflow" ELSE Ok
       /\ \A id \in DOMAIN asset_owner :
            transfer(Storage, caller, to, id, <<E1>>).result
              \in {Ok, "NotOwner", "AlreadyPaused", "EmissionsOverflow"}

\* bob transferred the only asset he held to alice: the removal found his
\* index set and the id in it, and left the set empty.
C38_Witness ==
  /\ calls = 3 /\ last.op = "transfer" /\ last.result = Ok
  /\ last.caller = "bob" /\ last.args[1] = "alice"
  /\ owned_assets["bob"] = {}
  /\ last.id \in owned_assets["alice"]
  /\ Len(co2_emissions[last.id]) >= 3

====
